---- MODULE Spec2Model ----
(***************************************************************************)
(* Blackbox desktop shell (apps/desktop/src-tauri/src/lib.rs): the tray    *)
(* menu handler, the global shortcut handler and the window event handler  *)
(* acting on the host's window registry, together with the pure decision   *)
(* functions (MenuAction, WindowVisibility, WindowAction).                 *)
(***************************************************************************)
EXTENDS Integers, Sequences, FiniteSets, TLC

VARIABLES
    windows,         \* host window registry: label -> window, DOMAIN = the window set
    focused,         \* label of the window holding input focus, or NoFocus
    running,         \* FALSE once exit has been requested
    exit_code,       \* None, or Some(code) passed to exit
    event,           \* the event the last handler run received
    calls,           \* host primitives invoked by the last handler run, in order
    queries,         \* results of the host queries made by the last handler run
    before,          \* registry, focus and running flag when that handler started
    ret              \* the last call of a pure function: name, arguments, value

vars == <<windows, focused, running, exit_code, event, calls, queries, before, ret>>

-----------------------------------------------------------------------------
(* Option<T> *)

None == <<"None">>

Some(x) == <<"Some", x>>

-----------------------------------------------------------------------------
(* mod config *)

WINDOW_TITLE == "Blackbox"

WINDOW_LABEL == "main"

SETTINGS_LABEL == "settings"

WINDOW_WIDTH == 400

WINDOW_HEIGHT == 300

SETTINGS_WIDTH == 480

SETTINGS_HEIGHT == 400

MENU_OPEN_ID == "open"

MENU_FEEDBACK_ID == "feedback"

MENU_MANUAL_ID == "manual"

MENU_TROUBLESHOOTING_ID == "troubleshooting"

MENU_SLACK_ID == "slack"

MENU_TWITTER_ID == "twitter"

MENU_YOUTUBE_ID == "youtube"

MENU_ABOUT_ID == "about"

MENU_UPDATES_ID == "updates"

MENU_SETTINGS_ID == "settings"

MENU_QUIT_ID == "quit"

URL_FEEDBACK == "https://github.com/blackbox-dev/blackbox/issues/new"

URL_MANUAL == "https://blackbox.dev/docs"

URL_TROUBLESHOOTING == "https://blackbox.dev/docs/troubleshooting"

URL_SLACK == "https://blackbox.dev/community"

URL_TWITTER == "https://twitter.com/blackboxdev"

URL_YOUTUBE == "https://youtube.com/@blackboxdev"

-----------------------------------------------------------------------------
(* enum WindowVisibility *)

Visible == "Visible"

Hidden == "Hidden"

WindowVisibility == {Visible, Hidden}

(* toggle with both arms returning Hidden *)
toggle_always_hidden(self) == IF self = Visible THEN Hidden ELSE Hidden

toggle(self) == IF self = Visible THEN Hidden ELSE Visible

is_visible(self) == self = Visible

(* From<bool> with the two arms swapped *)
from_bool_swapped(visible) == IF visible THEN Hidden ELSE Visible

from_bool(visible) == IF visible THEN Visible ELSE Hidden

-----------------------------------------------------------------------------
(* f64 as its IEEE 754 fields: sign bit, biased exponent (0..2047) and the *)
(* fraction in units of 2^48, i.e. its four leading bits.                  *)

F64(sign, exp, frac) == [sign |-> sign, exp |-> exp, frac |-> frac]

f64_is_nan(x) == x.exp = 2047 /\ x.frac # 0

f64_is_zero(x) == x.exp = 0 /\ x.frac = 0

f64_magnitude(x) == x.exp * 16 + x.frac

f64_gt(a, b) ==
    /\ ~f64_is_nan(a)
    /\ ~f64_is_nan(b)
    /\ ~(f64_is_zero(a) /\ f64_is_zero(b))
    /\ IF a.sign # b.sign
       THEN a.sign = 0
       ELSE IF a.sign = 0
            THEN f64_magnitude(a) > f64_magnitude(b)
            ELSE f64_magnitude(a) < f64_magnitude(b)

F64_ZERO == F64(0, 0, 0)

-----------------------------------------------------------------------------
(* struct WindowDimensions *)

WindowDimensions_new(width, height) == [width |-> width, height |-> height]

(* is_valid accepting a zero dimension *)
is_valid_or_zero(self) ==
    /\ ~f64_gt(F64_ZERO, self.width) /\ ~f64_is_nan(self.width)
    /\ ~f64_gt(F64_ZERO, self.height) /\ ~f64_is_nan(self.height)

is_valid(self) == f64_gt(self.width, F64_ZERO) /\ f64_gt(self.height, F64_ZERO)

-----------------------------------------------------------------------------
(* str *)

starts_with(s, prefix) ==
    Len(s) >= Len(prefix) /\ SubSeq(s, 1, Len(prefix)) = prefix

-----------------------------------------------------------------------------
(* enum MenuAction *)

MenuAction ==
    {"Open", "Feedback", "Manual", "Troubleshooting", "Slack", "Twitter",
     "YouTube", "About", "CheckUpdates", "Settings", "Quit", "Unknown"}

(* from_id matching without regard to the case of the first letter *)
from_id_case_insensitive(id) ==
    CASE id \in {MENU_OPEN_ID, "Open"} -> "Open"
      [] id = MENU_FEEDBACK_ID -> "Feedback"
      [] id = MENU_MANUAL_ID -> "Manual"
      [] id = MENU_TROUBLESHOOTING_ID -> "Troubleshooting"
      [] id = MENU_SLACK_ID -> "Slack"
      [] id = MENU_TWITTER_ID -> "Twitter"
      [] id = MENU_YOUTUBE_ID -> "YouTube"
      [] id \in {MENU_ABOUT_ID, "About"} -> "About"
      [] id = MENU_UPDATES_ID -> "CheckUpdates"
      [] id \in {MENU_SETTINGS_ID, "Settings"} -> "Settings"
      [] id \in {MENU_QUIT_ID, "Quit"} -> "Quit"
      [] OTHER -> "Unknown"

from_id(id) ==
    CASE id = MENU_OPEN_ID -> "Open"
      [] id = MENU_FEEDBACK_ID -> "Feedback"
      [] id = MENU_MANUAL_ID -> "Manual"
      [] id = MENU_TROUBLESHOOTING_ID -> "Troubleshooting"
      [] id = MENU_SLACK_ID -> "Slack"
      [] id = MENU_TWITTER_ID -> "Twitter"
      [] id = MENU_YOUTUBE_ID -> "YouTube"
      [] id = MENU_ABOUT_ID -> "About"
      [] id = MENU_UPDATES_ID -> "CheckUpdates"
      [] id = MENU_SETTINGS_ID -> "Settings"
      [] id = MENU_QUIT_ID -> "Quit"
      [] OTHER -> "Unknown"

(* should_exit matching Unknown as well as Quit *)
should_exit_or_unknown(self) == self \in {"Quit", "Unknown"}

should_exit(self) == self = "Quit"

(* get_url with the Manual arm returning the troubleshooting URL *)
get_url_wrong_manual(self) ==
    CASE self = "Feedback" -> Some(URL_FEEDBACK)
      [] self = "Manual" -> Some(URL_TROUBLESHOOTING)
      [] self = "Troubleshooting" -> Some(URL_TROUBLESHOOTING)
      [] self = "Slack" -> Some(URL_SLACK)
      [] self = "Twitter" -> Some(URL_TWITTER)
      [] self = "YouTube" -> Some(URL_YOUTUBE)
      [] OTHER -> None

(* get_url with an arm for About *)
get_url_about_link(self) ==
    CASE self = "Feedback" -> Some(URL_FEEDBACK)
      [] self = "Manual" -> Some(URL_MANUAL)
      [] self = "Troubleshooting" -> Some(URL_TROUBLESHOOTING)
      [] self = "Slack" -> Some(URL_SLACK)
      [] self = "Twitter" -> Some(URL_TWITTER)
      [] self = "YouTube" -> Some(URL_YOUTUBE)
      [] self = "About" -> Some("https://blackbox.dev/about")
      [] OTHER -> None

get_url(self) ==
    CASE self = "Feedback" -> Some(URL_FEEDBACK)
      [] self = "Manual" -> Some(URL_MANUAL)
      [] self = "Troubleshooting" -> Some(URL_TROUBLESHOOTING)
      [] self = "Slack" -> Some(URL_SLACK)
      [] self = "Twitter" -> Some(URL_TWITTER)
      [] self = "YouTube" -> Some(URL_YOUTUBE)
      [] OTHER -> None

-----------------------------------------------------------------------------
(* enum WindowAction *)

Create == <<"Create">>

Toggle(v) == <<"Toggle", v>>

(* determine looking at the visibility hint before the existence flag *)
determine_hint_first(window_exists, current_visibility) ==
    IF current_visibility = Some(TRUE)
    THEN Toggle(Hidden)
    ELSE IF window_exists THEN Toggle(Visible) ELSE Create

(* determine with unknown visibility defaulting to Visible *)
determine_default_visible(window_exists, current_visibility) ==
    IF window_exists
    THEN LET visibility == IF current_visibility = None
                           THEN Visible
                           ELSE from_bool(current_visibility[2])
         IN  Toggle(toggle(visibility))
    ELSE Create

determine(window_exists, current_visibility) ==
    IF window_exists
    THEN LET visibility == IF current_visibility = None
                           THEN Hidden
                           ELSE from_bool(current_visibility[2])
         IN  Toggle(toggle(visibility))
    ELSE Create

-----------------------------------------------------------------------------
(* The host (tauri AppHandle, WebviewWindow, plugins) as the handlers see  *)
(* it.  A host state h carries the registry, the focus, the exit request   *)
(* and the primitives called so far by the running handler.  Every         *)
(* fallible primitive takes its outcome ok; a failed primitive changes     *)
(* nothing.                                                                *)

NoFocus == "none"

Labels == {WINDOW_LABEL, SETTINGS_LABEL}

Call(prim, target, arg, ok) ==
    [prim |-> prim, target |-> target, arg |-> arg, ok |-> ok]

Logged(h, c) == [h EXCEPT !.calls = Append(h.calls, c)]

get_webview_window(h, label) ==
    IF label \in DOMAIN h.windows THEN Some(label) ELSE None

window_is_visible(h, label, q) ==
    IF q THEN Some(h.windows[label].visible) ELSE None

Queried(h, result) == [h EXCEPT !.queries = Append(h.queries, result)]

unwrap_or(opt, default) == IF opt = None THEN default ELSE opt[2]

window_show(h, label, ok) ==
    Logged(IF ok THEN [h EXCEPT !.windows[label].visible = TRUE] ELSE h,
           Call("show", label, "", ok))

window_hide(h, label, ok) ==
    Logged(IF ok
           THEN [h EXCEPT !.windows[label].visible = FALSE,
                          !.focused = IF @ = label THEN NoFocus ELSE @]
           ELSE h,
           Call("hide", label, "", ok))

window_set_focus(h, label, ok) ==
    Logged(IF ok THEN [h EXCEPT !.focused = label] ELSE h,
           Call("set_focus", label, "", ok))

window_eval_location_replace(h, label, url, ok) ==
    Logged(IF ok THEN [h EXCEPT !.windows[label].url = url] ELSE h,
           Call("navigate", label, url, ok))

WebviewWindowBuilder_build(h, label, url, title, width, height, visible, ok) ==
    Logged(IF ok
           THEN [h EXCEPT !.windows =
                    [l \in DOMAIN h.windows \cup {label} |->
                        IF l = label
                        THEN [title |-> title, url |-> url, width |-> width,
                              height |-> height, visible |-> visible]
                        ELSE h.windows[l]]]
           ELSE h,
           Call("create", label, url, ok))

opener_open_url(h, url, ok) == Logged(h, Call("open_external_url", "", url, ok))

app_emit(h, name, ok) == Logged(h, Call("emit", "", name, ok))

(* exit routed through the close path: every window is hidden first *)
app_exit_closing_windows(h, code) ==
    Logged([h EXCEPT !.running = FALSE, !.exit_code = Some(code),
                     !.windows = [l \in DOMAIN h.windows |->
                                     [h.windows[l] EXCEPT !.visible = FALSE]]],
           Call("exit", "", "", TRUE))

app_exit(h, code) ==
    Logged([h EXCEPT !.running = FALSE, !.exit_code = Some(code)],
           Call("exit", "", "", TRUE))

api_prevent_close(h) == [h EXCEPT !.close_prevented = TRUE]

-----------------------------------------------------------------------------
(* Helpers of lib.rs *)

open_url_helper(h, url, ok) == opener_open_url(h, url, ok)

(* show_or_create_window building the window with visible(true) *)
show_or_create_window_built_visible(h, label, title, url, width, height, navigate, r) ==
    IF get_webview_window(h, label) # None
    THEN LET h1 == IF navigate
                   THEN window_eval_location_replace(h, label, url, r[1])
                   ELSE h
             h2 == window_show(h1, label, r[2])
         IN  window_set_focus(h2, label, r[3])
    ELSE WebviewWindowBuilder_build(h, label, url, title, width, height, TRUE, r[1])

(* show_or_create_window without the set_focus call *)
show_or_create_window_no_focus(h, label, title, url, width, height, navigate, r) ==
    IF get_webview_window(h, label) # None
    THEN LET h1 == IF navigate
                   THEN window_eval_location_replace(h, label, url, r[1])
                   ELSE h
         IN  window_show(h1, label, r[2])
    ELSE WebviewWindowBuilder_build(h, label, url, title, width, height, FALSE, r[1])

(* show_or_create_window giving up at the first failed call, as with `?` *)
show_or_create_window_propagating(h, label, title, url, width, height, navigate, r) ==
    IF get_webview_window(h, label) # None
    THEN LET h1 == IF navigate
                   THEN window_eval_location_replace(h, label, url, r[1])
                   ELSE h
             h2 == IF navigate /\ ~r[1] THEN h1 ELSE window_show(h1, label, r[2])
         IN  IF (navigate /\ ~r[1]) \/ ~r[2]
             THEN h2
             ELSE window_set_focus(h2, label, r[3])
    ELSE WebviewWindowBuilder_build(h, label, url, title, width, height, FALSE, r[1])

(* show_or_create_window calling the builder without looking the label up *)
show_or_create_window_always_builds(h, label, title, url, width, height, navigate, r) ==
    WebviewWindowBuilder_build(h, label, url, title, width, height, FALSE, r[1])

(* show_or_create_window hiding a window that is visible *)
show_or_create_window_toggling(h, label, title, url, width, height, navigate, r) ==
    IF get_webview_window(h, label) # None
    THEN IF h.windows[label].visible
         THEN window_hide(h, label, r[1])
         ELSE LET h1 == IF navigate
                        THEN window_eval_location_replace(h, label, url, r[1])
                        ELSE h
                  h2 == window_show(h1, label, r[2])
              IN  window_set_focus(h2, label, r[3])
    ELSE WebviewWindowBuilder_build(h, label, url, title, width, height, FALSE, r[1])

show_or_create_window(h, label, title, url, width, height, navigate, r) ==
    IF get_webview_window(h, label) # None
    THEN LET h1 == IF navigate
                   THEN window_eval_location_replace(h, label, url, r[1])
                   ELSE h
             h2 == window_show(h1, label, r[2])
         IN  window_set_focus(h2, label, r[3])
    ELSE WebviewWindowBuilder_build(h, label, url, title, width, height, FALSE, r[1])

-----------------------------------------------------------------------------
(* The three handlers registered by run() *)

(* on_menu_event with the About arm passing navigate = false *)
on_menu_event_about_no_navigate(h, id, r) ==
    LET action == from_id(id) IN
    IF get_url(action) # None
    THEN open_url_helper(h, get_url(action)[2], r[1])
    ELSE CASE action = "Open" ->
                show_or_create_window(h, WINDOW_LABEL, WINDOW_TITLE, "/",
                                      WINDOW_WIDTH, WINDOW_HEIGHT, FALSE, r)
           [] action = "Settings" ->
                show_or_create_window(h, SETTINGS_LABEL, "Settings", "/settings",
                                      SETTINGS_WIDTH, SETTINGS_HEIGHT, FALSE, r)
           [] action = "About" ->
                show_or_create_window(h, SETTINGS_LABEL, "Settings",
                                      "/settings?tab=about",
                                      SETTINGS_WIDTH, SETTINGS_HEIGHT, FALSE, r)
           [] action = "CheckUpdates" -> app_emit(h, "check-updates", r[1])
           [] action = "Quit" -> app_exit(h, 0)
           [] OTHER -> h

(* on_menu_event with the catch-all arm opening the main window *)
on_menu_event_default_open(h, id, r) ==
    LET action == from_id(id) IN
    IF get_url(action) # None
    THEN open_url_helper(h, get_url(action)[2], r[1])
    ELSE CASE action = "Open" ->
                show_or_create_window(h, WINDOW_LABEL, WINDOW_TITLE, "/",
                                      WINDOW_WIDTH, WINDOW_HEIGHT, FALSE, r)
           [] action = "Settings" ->
                show_or_create_window(h, SETTINGS_LABEL, "Settings", "/settings",
                                      SETTINGS_WIDTH, SETTINGS_HEIGHT, FALSE, r)
           [] action = "About" ->
                show_or_create_window(h, SETTINGS_LABEL, "Settings",
                                      "/settings?tab=about",
                                      SETTINGS_WIDTH, SETTINGS_HEIGHT, TRUE, r)
           [] action = "CheckUpdates" -> app_emit(h, "check-updates", r[1])
           [] action = "Quit" -> app_exit(h, 0)
           [] OTHER ->
                show_or_create_window(h, WINDOW_LABEL, WINDOW_TITLE, "/",
                                      WINDOW_WIDTH, WINDOW_HEIGHT, FALSE, r)

(* on_menu_event with the CheckUpdates arm also opening the main window *)
on_menu_event_updates_opens(h, id, r) ==
    LET action == from_id(id) IN
    IF get_url(action) # None
    THEN open_url_helper(h, get_url(action)[2], r[1])
    ELSE CASE action = "Open" ->
                show_or_create_window(h, WINDOW_LABEL, WINDOW_TITLE, "/",
                                      WINDOW_WIDTH, WINDOW_HEIGHT, FALSE, r)
           [] action = "Settings" ->
                show_or_create_window(h, SETTINGS_LABEL, "Settings", "/settings",
                                      SETTINGS_WIDTH, SETTINGS_HEIGHT, FALSE, r)
           [] action = "About" ->
                show_or_create_window(h, SETTINGS_LABEL, "Settings",
                                      "/settings?tab=about",
                                      SETTINGS_WIDTH, SETTINGS_HEIGHT, TRUE, r)
           [] action = "CheckUpdates" -> show_or_create_window(app_emit(h, "check-updates", r[1]),
                                      WINDOW_LABEL, WINDOW_TITLE, "/",
                                      WINDOW_WIDTH, WINDOW_HEIGHT, FALSE, r)
           [] action = "Quit" -> app_exit(h, 0)
           [] OTHER -> h

(* on_menu_event with the Settings arm passing navigate = true *)
on_menu_event_settings_navigates(h, id, r) ==
    LET action == from_id(id) IN
    IF get_url(action) # None
    THEN open_url_helper(h, get_url(action)[2], r[1])
    ELSE CASE action = "Open" ->
                show_or_create_window(h, WINDOW_LABEL, WINDOW_TITLE, "/",
                                      WINDOW_WIDTH, WINDOW_HEIGHT, FALSE, r)
           [] action = "Settings" ->
                show_or_create_window(h, SETTINGS_LABEL, "Settings", "/settings",
                                      SETTINGS_WIDTH, SETTINGS_HEIGHT, TRUE, r)
           [] action = "About" ->
                show_or_create_window(h, SETTINGS_LABEL, "Settings",
                                      "/settings?tab=about",
                                      SETTINGS_WIDTH, SETTINGS_HEIGHT, TRUE, r)
           [] action = "CheckUpdates" -> app_emit(h, "check-updates", r[1])
           [] action = "Quit" -> app_exit(h, 0)
           [] OTHER -> h

on_menu_event(h, id, r) ==
    LET action == from_id(id) IN
    IF get_url(action) # None
    THEN open_url_helper(h, get_url(action)[2], r[1])
    ELSE CASE action = "Open" ->
                show_or_create_window(h, WINDOW_LABEL, WINDOW_TITLE, "/",
                                      WINDOW_WIDTH, WINDOW_HEIGHT, FALSE, r)
           [] action = "Settings" ->
                show_or_create_window(h, SETTINGS_LABEL, "Settings", "/settings",
                                      SETTINGS_WIDTH, SETTINGS_HEIGHT, FALSE, r)
           [] action = "About" ->
                show_or_create_window(h, SETTINGS_LABEL, "Settings",
                                      "/settings?tab=about",
                                      SETTINGS_WIDTH, SETTINGS_HEIGHT, TRUE, r)
           [] action = "CheckUpdates" -> app_emit(h, "check-updates", r[1])
           [] action = "Quit" -> app_exit(h, 0)
           [] OTHER -> h

shortcut_matches(shortcut, mods, code) ==
    shortcut.mods = mods /\ shortcut.key = code

(* the shortcut handler reading a failed visibility query as "visible" *)
global_shortcut_handler_unwrap_true(h, shortcut, state, q, r) ==
    IF state = "Pressed"
    THEN LET is_cmd_space == \/ shortcut_matches(shortcut, "META", "Space")
                             \/ shortcut_matches(shortcut, "CONTROL", "Space")
         IN  IF is_cmd_space
             THEN IF get_webview_window(h, WINDOW_LABEL) # None
                  THEN LET visible == window_is_visible(h, WINDOW_LABEL, q)
                           h1 == Queried(h, visible)
                       IN  IF unwrap_or(visible, TRUE)
                           THEN window_hide(h1, WINDOW_LABEL, r[1])
                           ELSE window_set_focus(window_show(h1, WINDOW_LABEL, r[1]),
                                                 WINDOW_LABEL, r[2])
                  ELSE WebviewWindowBuilder_build(h, WINDOW_LABEL, "/", WINDOW_TITLE,
                                                  WINDOW_WIDTH, WINDOW_HEIGHT,
                                                  FALSE, r[1])
             ELSE h
    ELSE h

(* the shortcut handler showing the window whatever its visibility *)
global_shortcut_handler_show_only(h, shortcut, state, q, r) ==
    IF state = "Pressed"
    THEN LET is_cmd_space == \/ shortcut_matches(shortcut, "META", "Space")
                             \/ shortcut_matches(shortcut, "CONTROL", "Space")
         IN  IF is_cmd_space
             THEN IF get_webview_window(h, WINDOW_LABEL) # None
                  THEN LET visible == window_is_visible(h, WINDOW_LABEL, q)
                           h1 == Queried(h, visible)
                       IN  IF FALSE
                           THEN window_hide(h1, WINDOW_LABEL, r[1])
                           ELSE window_set_focus(window_show(h1, WINDOW_LABEL, r[1]),
                                                 WINDOW_LABEL, r[2])
                  ELSE WebviewWindowBuilder_build(h, WINDOW_LABEL, "/", WINDOW_TITLE,
                                                  WINDOW_WIDTH, WINDOW_HEIGHT,
                                                  FALSE, r[1])
             ELSE h
    ELSE h

(* the shortcut handler without the test of the key state *)
global_shortcut_handler_any_state(h, shortcut, state, q, r) ==
    IF state \in {"Pressed", "Released"}
    THEN LET is_cmd_space == \/ shortcut_matches(shortcut, "META", "Space")
                             \/ shortcut_matches(shortcut, "CONTROL", "Space")
         IN  IF is_cmd_space
             THEN IF get_webview_window(h, WINDOW_LABEL) # None
                  THEN LET visible == window_is_visible(h, WINDOW_LABEL, q)
                           h1 == Queried(h, visible)
                       IN  IF unwrap_or(visible, FALSE)
                           THEN window_hide(h1, WINDOW_LABEL, r[1])
                           ELSE window_set_focus(window_show(h1, WINDOW_LABEL, r[1]),
                                                 WINDOW_LABEL, r[2])
                  ELSE WebviewWindowBuilder_build(h, WINDOW_LABEL, "/", WINDOW_TITLE,
                                                  WINDOW_WIDTH, WINDOW_HEIGHT,
                                                  FALSE, r[1])
             ELSE h
    ELSE h

global_shortcut_handler(h, shortcut, state, q, r) ==
    IF state = "Pressed"
    THEN LET is_cmd_space == \/ shortcut_matches(shortcut, "META", "Space")
                             \/ shortcut_matches(shortcut, "CONTROL", "Space")
         IN  IF is_cmd_space
             THEN IF get_webview_window(h, WINDOW_LABEL) # None
                  THEN LET visible == window_is_visible(h, WINDOW_LABEL, q)
                           h1 == Queried(h, visible)
                       IN  IF unwrap_or(visible, FALSE)
                           THEN window_hide(h1, WINDOW_LABEL, r[1])
                           ELSE window_set_focus(window_show(h1, WINDOW_LABEL, r[1]),
                                                 WINDOW_LABEL, r[2])
                  ELSE WebviewWindowBuilder_build(h, WINDOW_LABEL, "/", WINDOW_TITLE,
                                                  WINDOW_WIDTH, WINDOW_HEIGHT,
                                                  FALSE, r[1])
             ELSE h
    ELSE h

(* on_window_event without the prevent_close call *)
on_window_event_no_prevent(h, label, ev, r) ==
    IF ev = "CloseRequested"
    THEN window_hide(h, label, r[1])
    ELSE h

on_window_event(h, label, ev, r) ==
    IF ev = "CloseRequested"
    THEN window_hide(api_prevent_close(h), label, r[1])
    ELSE h

(* What the host does with a window event once the handler has returned:   *)
(* a close request that was not prevented destroys the window.             *)
deliver_window_event(h, label, ev, r) ==
    LET h1 == on_window_event(h, label, ev, r) IN
    IF ev = "CloseRequested" /\ ~h1.close_prevented
    THEN [h1 EXCEPT !.windows = [l \in DOMAIN h1.windows \ {label} |-> h1.windows[l]],
                    !.focused = IF @ = label THEN NoFocus ELSE @]
    ELSE h1

-----------------------------------------------------------------------------
(* Inputs *)

TableIds ==
    {MENU_OPEN_ID, MENU_FEEDBACK_ID, MENU_MANUAL_ID, MENU_TROUBLESHOOTING_ID,
     MENU_SLACK_ID, MENU_TWITTER_ID, MENU_YOUTUBE_ID, MENU_ABOUT_ID,
     MENU_UPDATES_ID, MENU_SETTINGS_ID, MENU_QUIT_ID}

(* Ids a menu event may carry: the table and some ids outside it. *)
RawIds == TableIds \cup {"", "Quit", "unknown"}

(* Arguments for from_id: the table, near misses of every table id (a      *)
(* character added in front or behind), case variants and other strings.   *)
Affixes == {" ", "s", "_", "Q"}

IdStrings ==
    TableIds
      \cup {id \o a : id \in TableIds, a \in Affixes}
      \cup {a \o id : id \in TableIds, a \in Affixes}
      \cup {"", "Quit", "QUIT", "Open", "OPEN", "Settings", "About",
            "qui", "ope", "update", "unknown", "random"}

Shortcuts == [mods : {"META", "CONTROL", "ALT"}, key : {"Space", "KeyK"}]

ShortcutStates == {"Pressed", "Released"}

WindowEvents == {"CloseRequested", "Moved"}

Results == [1..3 -> BOOLEAN]

OptionBool == {None, Some(TRUE), Some(FALSE)}

(* Arguments for WindowDimensions::new, by name. *)
F64Value ==
    [n \in {"0.0", "-0.0", "1.0", "-1.0", "MIN_POSITIVE", "-MIN_POSITIVE",
            "subnormal", "100.0", "-100.0", "INFINITY", "NEG_INFINITY", "NAN"} |->
        CASE n = "0.0" -> F64(0, 0, 0)
          [] n = "-0.0" -> F64(1, 0, 0)
          [] n = "1.0" -> F64(0, 1023, 0)
          [] n = "-1.0" -> F64(1, 1023, 0)
          [] n = "MIN_POSITIVE" -> F64(0, 1, 0)
          [] n = "-MIN_POSITIVE" -> F64(1, 1, 0)
          [] n = "subnormal" -> F64(0, 0, 1)
          [] n = "100.0" -> F64(0, 1029, 9)
          [] n = "-100.0" -> F64(1, 1029, 9)
          [] n = "INFINITY" -> F64(0, 2047, 0)
          [] n = "NEG_INFINITY" -> F64(1, 2047, 0)
          [] n = "NAN" -> F64(0, 2047, 8)]

-----------------------------------------------------------------------------
(* State machine *)

Event(kind, id, label, state, shortcut) ==
    [kind |-> kind, id |-> id, label |-> label, state |-> state,
     shortcut |-> shortcut]

NoShortcut == [mods |-> "", key |-> ""]

Host ==
    [windows |-> windows, focused |-> focused, running |-> running,
     exit_code |-> exit_code, calls |-> <<>>, queries |-> <<>>,
     close_prevented |-> FALSE]

Handled(h, e) ==
    /\ windows' = h.windows
    /\ focused' = h.focused
    /\ running' = h.running
    /\ exit_code' = h.exit_code
    /\ calls' = h.calls
    /\ queries' = h.queries
    /\ event' = e
    /\ before' = [windows |-> windows, focused |-> focused, running |-> running]
    /\ UNCHANGED ret

Init ==
    /\ windows = <<>>
    /\ focused = NoFocus
    /\ running = TRUE
    /\ exit_code = None
    /\ event = Event("init", "", "", "", NoShortcut)
    /\ calls = <<>>
    /\ queries = <<>>
    /\ before = [windows |-> <<>>, focused |-> NoFocus, running |-> TRUE]
    /\ ret = [fn |-> "none", args |-> <<>>, value |-> None]

MenuEvent ==
    /\ running
    /\ \E id \in RawIds, r \in Results :
          Handled(on_menu_event(Host, id, r),
                  Event("menu", id, "", "", NoShortcut))

GlobalShortcut ==
    /\ running
    /\ \E shortcut \in Shortcuts, state \in ShortcutStates,
          q \in BOOLEAN, r \in Results :
          Handled(global_shortcut_handler(Host, shortcut, state, q, r),
                  Event("shortcut", "", "", state, shortcut))

WindowEvent ==
    /\ running
    /\ \E label \in DOMAIN windows, ev \in WindowEvents, r \in Results :
          Handled(deliver_window_event(Host, label, ev, r),
                  Event("window", ev, label, "", NoShortcut))

Next ==
    \/ MenuEvent
    \/ GlobalShortcut
    \/ WindowEvent

Spec == Init /\ [][Next]_vars

-----------------------------------------------------------------------------
(* The pure functions called on their own, as the tests module calls them. *)

Returned(fn, args, value) ==
    /\ ret' = [fn |-> fn, args |-> args, value |-> value]
    /\ UNCHANGED <<windows, focused, running, exit_code, event, calls, queries, before>>

CallDetermine ==
    \E window_exists \in BOOLEAN, current_visibility \in OptionBool :
        Returned("determine", <<window_exists, current_visibility>>,
                 determine(window_exists, current_visibility))

CallFromId ==
    \E id \in IdStrings : Returned("from_id", <<id>>, from_id(id))

CallGetUrl ==
    \E action \in MenuAction : Returned("get_url", <<action>>, get_url(action))

CallShouldExit ==
    \E action \in MenuAction :
        Returned("should_exit", <<action>>, should_exit(action))

CallShouldExitFromId ==
    \E id \in IdStrings :
        Returned("from_id.should_exit", <<id>>, should_exit(from_id(id)))

CallToggle ==
    \E v \in WindowVisibility : Returned("toggle", <<v>>, toggle(v))

CallToggleTwice ==
    \E v \in WindowVisibility : Returned("toggle.toggle", <<v>>, toggle(toggle(v)))

CallFromBool ==
    \E b \in BOOLEAN : Returned("from", <<b>>, from_bool(b))

CallFromBoolIsVisible ==
    \E b \in BOOLEAN : Returned("from.is_visible", <<b>>, is_visible(from_bool(b)))

CallIsValid ==
    \E w \in DOMAIN F64Value, h \in DOMAIN F64Value :
        LET dims == WindowDimensions_new(F64Value[w], F64Value[h]) IN
        Returned("new.is_valid", <<w, h>>, [dims |-> dims, valid |-> is_valid(dims)])

NextFn ==
    \/ CallDetermine
    \/ CallFromId
    \/ CallGetUrl
    \/ CallShouldExit
    \/ CallShouldExitFromId
    \/ CallToggle
    \/ CallToggleTwice
    \/ CallFromBool
    \/ CallFromBoolIsVisible
    \/ CallIsValid

SpecFn == Init /\ [][NextFn]_vars

-----------------------------------------------------------------------------
(* Vocabulary of the properties: the last handled event, seen through      *)
(* event, calls and before.                                                *)

MenuHandled(id) == event.kind = "menu" /\ event.id = id

HotkeyHandled ==
    /\ event.kind = "shortcut"
    /\ event.state = "Pressed"
    /\ event.shortcut \in {[mods |-> "META", key |-> "Space"],
                           [mods |-> "CONTROL", key |-> "Space"]}

CloseHandled(label) ==
    event.kind = "window" /\ event.id = "CloseRequested" /\ event.label = label

Prims == [i \in 1..Len(calls) |-> calls[i].prim]

AllOk == \A i \in 1..Len(calls) : calls[i].ok

Exists(label) == label \in DOMAIN windows

Existed(label) == label \in DOMAIN before.windows

IsVisible(label) == Exists(label) /\ windows[label].visible

WasVisible(label) == Existed(label) /\ before.windows[label].visible

SameWindow(label) ==
    /\ Exists(label) <=> Existed(label)
    /\ Exists(label) => windows[label] = before.windows[label]

LinkIds == {"feedback", "manual", "troubleshooting", "slack", "twitter", "youtube"}

-----------------------------------------------------------------------------
(* C1: a menu "open" event that arrives while the main window exists and   *)
(* is visible leaves the main window hidden.  The menu handler shows the   *)
(* window instead, so this statement is violated.                          *)
C1_OpenHidesVisibleMain ==
    (MenuHandled("open") /\ WasVisible("main")) => ~IsVisible("main")

(* C2: a menu "open" event with no main window calls the window builder    *)
(* once; a successful build registers "main" titled "Blackbox", 400x300,   *)
(* not visible, and a failed one registers nothing; in every case the main *)
(* window turns visible only in a handler run whose show call on an        *)
(* already existing main window succeeded.                                 *)
C2_OpenCreatesHiddenMain ==
    /\ (MenuHandled("open") /\ ~Existed("main")) =>
          /\ Prims = <<"create">>
          /\ calls[1].target = "main"
          /\ ~IsVisible("main")
          /\ calls[1].ok =>
                /\ Exists("main")
                /\ windows["main"] = [title |-> "Blackbox", url |-> "/",
                                      width |-> 400, height |-> 300,
                                      visible |-> FALSE]
          /\ ~calls[1].ok => ~Exists("main")
    /\ (IsVisible("main") /\ ~WasVisible("main")) =>
          /\ Existed("main")
          /\ \E i \in 1..Len(calls) :
                calls[i] = [prim |-> "show", target |-> "main", arg |-> "", ok |-> TRUE]

C2_Witness ==
    /\ MenuHandled("open")
    /\ ~Existed("main")
    /\ Exists("main")
    /\ ~windows["main"].visible
    /\ Exists("settings")

(* C3: a close request on an existing window leaves it in the registry,    *)
(* calls hide on it and nothing else (so it is hidden once the hide        *)
(* succeeds), leaves the other window as it was and the process running;   *)
(* and no event other than Quit removes a window from the registry.        *)
C3_CloseHidesAndKeeps ==
    /\ \A l \in Labels :
          CloseHandled(l) =>
             /\ Existed(l)
             /\ Exists(l)
             /\ calls = <<[prim |-> "hide", target |-> l, arg |-> "", ok |-> calls[1].ok]>>
             /\ calls[1].ok => ~windows[l].visible
             /\ \A o \in Labels \ {l} : SameWindow(o)
             /\ running
             /\ exit_code = None
    /\ ~MenuHandled("quit") => DOMAIN before.windows \subseteq DOMAIN windows

C3_Witness ==
    /\ CloseHandled("settings")
    /\ WasVisible("settings")
    /\ Exists("settings")
    /\ ~windows["settings"].visible
    /\ IsVisible("main")
    /\ running

(* C4: menu id "quit" requests exit with code 0 and does nothing else:     *)
(* exit is the only primitive called, no window is created, shown, hidden  *)
(* or navigated, and the focus stays where it was.                         *)
C4_QuitExitsDirectly ==
    MenuHandled("quit") =>
       /\ calls = <<[prim |-> "exit", target |-> "", arg |-> "", ok |-> TRUE]>>
       /\ exit_code = <<"Some", 0>>
       /\ ~running
       /\ windows = before.windows
       /\ focused = before.focused

C4_Witness ==
    /\ MenuHandled("quit")
    /\ ~running
    /\ IsVisible("main")
    /\ Exists("settings")

(* C5: a menu event with a link id calls open_external_url once, with the  *)
(* URL of that id, and changes nothing: both windows, the focus and the    *)
(* running flag are as before, and no exit is requested.                   *)
C5_LinkOpensUrlOnly ==
    \A id \in LinkIds :
       MenuHandled(id) =>
          /\ Len(calls) = 1
          /\ calls[1].prim = "open_external_url"
          /\ calls[1].arg =
                (CASE id = "feedback" -> "https://github.com/blackbox-dev/blackbox/issues/new"
                   [] id = "manual" -> "https://blackbox.dev/docs"
                   [] id = "troubleshooting" -> "https://blackbox.dev/docs/troubleshooting"
                   [] id = "slack" -> "https://blackbox.dev/community"
                   [] id = "twitter" -> "https://twitter.com/blackboxdev"
                   [] id = "youtube" -> "https://youtube.com/@blackboxdev")
          /\ windows = before.windows
          /\ focused = before.focused
          /\ running
          /\ exit_code = None

C5_Witness ==
    /\ MenuHandled("manual")
    /\ Len(calls) = 1
    /\ calls[1].arg = "https://blackbox.dev/docs"
    /\ IsVisible("main")
    /\ Exists("settings")

(* C6 as claimed: every handled event invokes exactly one host primitive.  *)
C6_ExactlyOnePrimitive == event.kind # "init" => Len(calls) = 1

(* C6 amended: an event invokes exactly one host primitive when its        *)
(* outcome is create, hide, open_external_url, emit or exit; a show        *)
(* outcome invokes show then set_focus, preceded by navigate for About on  *)
(* an existing settings window; an unknown menu id, a released or          *)
(* non-matching shortcut and a window event other than a close request     *)
(* invoke none.                                                            *)
C6_PrimitivesPerEvent ==
    /\ event.kind = "menu" =>
          Prims =
             (CASE event.id \in LinkIds -> <<"open_external_url">>
                [] event.id = "open" ->
                      IF Existed("main") THEN <<"show", "set_focus">> ELSE <<"create">>
                [] event.id = "settings" ->
                      IF Existed("settings") THEN <<"show", "set_focus">> ELSE <<"create">>
                [] event.id = "about" ->
                      IF Existed("settings")
                      THEN <<"navigate", "show", "set_focus">>
                      ELSE <<"create">>
                [] event.id = "updates" -> <<"emit">>
                [] event.id = "quit" -> <<"exit">>
                [] OTHER -> <<>>)
    /\ event.kind = "shortcut" =>
          IF HotkeyHandled
          THEN IF Existed("main")
               THEN Prims \in {<<"hide">>, <<"show", "set_focus">>}
               ELSE Prims = <<"create">>
          ELSE Prims = <<>>
    /\ event.kind = "window" =>
          Prims = IF event.id = "CloseRequested" THEN <<"hide">> ELSE <<>>
    /\ \A i \in 1..Len(calls) :
          calls[i].prim \in {"show", "set_focus", "hide", "navigate", "create"}
             => calls[i].target =
                   (IF event.kind = "menu"
                    THEN (IF event.id = "open" THEN "main" ELSE "settings")
                    ELSE IF event.kind = "shortcut" THEN "main" ELSE event.label)

C6_Witness ==
    /\ MenuHandled("open")
    /\ Existed("main")
    /\ Prims = <<"show", "set_focus">>

(* C7: after a matching hotkey press whose host calls succeeded, the main  *)
(* window is in the state a menu "open" event would have left it in from   *)
(* the same starting state, and the settings window is untouched.  A       *)
(* visible main window is hidden by the hotkey and shown by "open", so     *)
(* this statement is violated.                                             *)
C7_HotkeySameAsOpen ==
    (HotkeyHandled /\ AllOk) =>
       LET start == [windows |-> before.windows, focused |-> before.focused,
                     running |-> before.running, exit_code |-> None,
                     calls |-> <<>>, queries |-> <<>>,
                     close_prevented |-> FALSE]
           opened == on_menu_event(start, "open", [i \in 1..3 |-> TRUE])
       IN  /\ Exists("main") <=> "main" \in DOMAIN opened.windows
           /\ Exists("main") => windows["main"] = opened.windows["main"]
           /\ SameWindow("settings")

(* C8: determine(false, x) is Create for x = None, Some(true), Some(false) *)
C8_DetermineNoWindowCreates ==
    (ret.fn = "determine" /\ ret.args[1] = FALSE) => ret.value = <<"Create">>

C8_Witness ==
    /\ ret.fn = "determine"
    /\ ret.args = <<FALSE, <<"Some", TRUE>>>>
    /\ ret.value = <<"Create">>

(* C9: for an existing window determine returns Toggle of the opposite of  *)
(* the current visibility, unknown visibility counting as Hidden, and      *)
(* never Create.                                                           *)
C9_DetermineTogglesExisting ==
    (ret.fn = "determine" /\ ret.args[1] = TRUE) =>
       /\ ret.args[2] = <<"Some", TRUE>> => ret.value = <<"Toggle", "Hidden">>
       /\ ret.args[2] = <<"Some", FALSE>> => ret.value = <<"Toggle", "Visible">>
       /\ ret.args[2] = <<"None">> => ret.value = <<"Toggle", "Visible">>
       /\ ret.value # <<"Create">>

C9_Witness ==
    /\ ret.fn = "determine"
    /\ ret.args = <<TRUE, <<"None">>>>
    /\ ret.value = <<"Toggle", "Visible">>

(* C10: from_id maps each of the eleven table ids to its own action and    *)
(* every other string, the empty string and case variants included, to     *)
(* Unknown.                                                                *)
C10_FromIdExact ==
    ret.fn = "from_id" =>
       LET id == ret.args[1] IN
       ret.value =
          (CASE id = "open" -> "Open"
             [] id = "feedback" -> "Feedback"
             [] id = "manual" -> "Manual"
             [] id = "troubleshooting" -> "Troubleshooting"
             [] id = "slack" -> "Slack"
             [] id = "twitter" -> "Twitter"
             [] id = "youtube" -> "YouTube"
             [] id = "about" -> "About"
             [] id = "updates" -> "CheckUpdates"
             [] id = "settings" -> "Settings"
             [] id = "quit" -> "Quit"
             [] OTHER -> "Unknown")

C10_Witness ==
    /\ ret.fn = "from_id"
    /\ ret.args = <<"Quit">>
    /\ ret.value = "Unknown"

(* C11: a Settings or About menu event on an existing settings window      *)
(* calls show and set_focus on it, About calling navigate to               *)
(* "/settings?tab=about" first and Settings never navigating; with no      *)
(* settings window it makes one build call, which registers "settings" at  *)
(* 480x400, not visible; no third window appears and the main window is    *)
(* as before.                                                              *)
C11_SettingsAboutShowOrCreate ==
    \A id \in {"settings", "about"} :
       MenuHandled(id) =>
          /\ SameWindow("main")
          /\ DOMAIN windows \subseteq {"main", "settings"}
          /\ \A i \in 1..Len(calls) : calls[i].target = "settings"
          /\ IF Existed("settings")
             THEN /\ Exists("settings")
                  /\ Prims = IF id = "about"
                             THEN <<"navigate", "show", "set_focus">>
                             ELSE <<"show", "set_focus">>
                  /\ id = "about" =>
                        /\ calls[1].arg = "/settings?tab=about"
                        /\ calls[1].ok => windows["settings"].url = "/settings?tab=about"
                  /\ (id = "settings" \/ ~calls[1].ok) =>
                        windows["settings"].url = before.windows["settings"].url
                  /\ calls[Len(calls) - 1].ok => windows["settings"].visible
                  /\ calls[Len(calls)].ok => focused = "settings"
             ELSE /\ Prims = <<"create">>
                  /\ calls[1].ok =>
                        /\ Exists("settings")
                        /\ windows["settings"] =
                              [title |-> "Settings",
                               url |-> IF id = "about" THEN "/settings?tab=about"
                                                       ELSE "/settings",
                               width |-> 480, height |-> 400, visible |-> FALSE]
                  /\ ~calls[1].ok => ~Exists("settings")

C11_Witness ==
    /\ MenuHandled("about")
    /\ Existed("settings")
    /\ before.windows["settings"].url = "/settings"
    /\ ~before.windows["settings"].visible
    /\ windows["settings"].url = "/settings?tab=about"
    /\ windows["settings"].visible
    /\ focused = "settings"
    /\ Exists("main")

(* C12: a failed host call is discarded.  The handler makes the calls that *)
(* follow it all the same and makes no call twice; the process keeps       *)
(* running and the handlers stay enabled; what the failed call would have  *)
(* changed is as it was when the handler started; and a failed visibility  *)
(* query is read as "not visible" and the handler goes on to show.         *)
C12_HostCallsBestEffort ==
    /\ (event.kind # "init" /\ ~AllOk) =>
          /\ running
          /\ exit_code = <<"None">>
          /\ ENABLED MenuEvent
          /\ ENABLED GlobalShortcut
          /\ DOMAIN windows # {} => ENABLED WindowEvent
    /\ \A i, j \in 1..Len(calls) : i # j => calls[i].prim # calls[j].prim
    /\ (event.kind = "menu" /\ event.id \in {"open", "settings"}
          /\ Existed(IF event.id = "open" THEN "main" ELSE "settings")) =>
          Len(calls) = 2
    /\ (MenuHandled("about") /\ Existed("settings")) => Len(calls) = 3
    /\ (Len(calls) >= 1 /\ calls[1].prim = "show") => Len(calls) = 2
    /\ \A i \in 1..Len(calls) :
          ~calls[i].ok =>
             LET t == calls[i].target IN
             CASE calls[i].prim = "show" ->
                     windows[t].visible = before.windows[t].visible
               [] calls[i].prim = "hide" ->
                     /\ windows = before.windows
                     /\ focused = before.focused
               [] calls[i].prim = "set_focus" -> focused = before.focused
               [] calls[i].prim = "navigate" ->
                     windows[t].url = before.windows[t].url
               [] calls[i].prim = "create" ->
                     /\ ~Exists(t)
                     /\ windows = before.windows
               [] calls[i].prim \in {"open_external_url", "emit"} ->
                     /\ windows = before.windows
                     /\ focused = before.focused
    /\ (Len(calls) >= 1 /\ \A i \in 1..Len(calls) : ~calls[i].ok) =>
          /\ windows = before.windows
          /\ focused = before.focused
    /\ (HotkeyHandled /\ queries = <<(<<"None">>)>>) =>
          /\ Prims = <<"show", "set_focus">>
          /\ running

C12_Witness ==
    /\ MenuHandled("about")
    /\ Existed("settings")
    /\ Len(calls) = 3
    /\ ~calls[1].ok
    /\ calls[2].ok
    /\ ~calls[3].ok
    /\ windows["settings"].url = "/settings"
    /\ windows["settings"].visible
    /\ running

(* C13: a menu event whose id is not one of the eleven table ids calls no  *)
(* host primitive and leaves the registry, the focus, the running flag and *)
(* the exit request as they were.                                          *)
C13_UnknownIdNoOp ==
    (event.kind = "menu"
       /\ event.id \notin {"open", "feedback", "manual", "troubleshooting", "slack",
                           "twitter", "youtube", "about", "updates", "settings",
                           "quit"}) =>
       /\ calls = <<>>
       /\ queries = <<>>
       /\ windows = before.windows
       /\ focused = before.focused
       /\ running = before.running
       /\ running
       /\ exit_code = <<"None">>

C13_Witness ==
    /\ MenuHandled("Quit")
    /\ calls = <<>>
    /\ IsVisible("main")
    /\ Exists("settings")
    /\ running

(* C14: the menu event "updates" emits "check-updates" and does nothing    *)
(* else: emit is the only primitive called, the registry and the focus are *)
(* as before and no exit is requested.                                     *)
C14_CheckUpdatesEmitsOnly ==
    MenuHandled("updates") =>
       /\ Len(calls) = 1
       /\ calls[1].prim = "emit"
       /\ calls[1].arg = "check-updates"
       /\ windows = before.windows
       /\ focused = before.focused
       /\ running
       /\ exit_code = <<"None">>

C14_Witness ==
    /\ MenuHandled("updates")
    /\ Len(calls) = 1
    /\ calls[1].ok
    /\ Exists("main")
    /\ ~IsVisible("main")
    /\ IsVisible("settings")

(* C15: get_url returns Some for Feedback, Manual, Troubleshooting, Slack, *)
(* Twitter and YouTube and None for the six other actions, and every URL   *)
(* it returns starts with "https://".                                      *)
C15_GetUrlLinksOnly ==
    ret.fn = "get_url" =>
       /\ ret.args[1] \in {"Feedback", "Manual", "Troubleshooting", "Slack",
                           "Twitter", "YouTube"}
             => (ret.value[1] = "Some" /\ starts_with(ret.value[2], "https://"))
       /\ ret.args[1] \in {"Open", "About", "CheckUpdates", "Settings", "Quit",
                           "Unknown"}
             => ret.value = <<"None">>
       /\ ret.value # <<"None">> => starts_with(ret.value[2], "https://")

C15_Witness ==
    /\ ret.fn = "get_url"
    /\ ret.args = <<"YouTube">>
    /\ ret.value = <<"Some", "https://youtube.com/@blackboxdev">>

(* C16: should_exit is true for Quit and false for the eleven other        *)
(* actions, and should_exit(from_id(id)) is true exactly for id = "quit".  *)
C16_ShouldExitOnlyQuit ==
    /\ ret.fn = "should_exit" => (ret.value <=> ret.args[1] = "Quit")
    /\ ret.fn = "from_id.should_exit" => (ret.value <=> ret.args[1] = "quit")

C16_Witness ==
    /\ ret.fn = "from_id.should_exit"
    /\ ret.args = <<"Quit">>
    /\ ret.value = FALSE

(* C17: toggle has no fixed point and applying it twice gives the          *)
(* original visibility back.                                               *)
C17_ToggleInvolution ==
    /\ ret.fn = "toggle" =>
          /\ ret.value \in {"Visible", "Hidden"}
          /\ ret.value # ret.args[1]
    /\ ret.fn = "toggle.toggle" => ret.value = ret.args[1]

C17_Witness ==
    /\ ret.fn = "toggle.toggle"
    /\ ret.args = <<"Hidden">>
    /\ ret.value = "Hidden"

(* C18: WindowVisibility::from maps true to Visible and false to Hidden,   *)
(* and from(b).is_visible() is b.                                          *)
C18_FromBoolRoundTrip ==
    /\ ret.fn = "from" =>
          ret.value = (IF ret.args[1] THEN "Visible" ELSE "Hidden")
    /\ ret.fn = "from.is_visible" => (ret.value <=> ret.args[1])

C18_Witness ==
    /\ ret.fn = "from.is_visible"
    /\ ret.args = <<FALSE>>
    /\ ret.value = FALSE

(* C19: WindowDimensions::new(w, h) stores w and h as given, whatever they *)
(* are, and is_valid() on it is true exactly when both are greater than    *)
(* zero: 0, -0, -1 and NaN are not, 1, MIN_POSITIVE, a subnormal and       *)
(* +infinity are.                                                          *)
C19_IsValidIffPositive ==
    ret.fn = "new.is_valid" =>
       LET positive == {"1.0", "MIN_POSITIVE", "subnormal", "100.0", "INFINITY"} IN
       /\ ret.value.dims = [width |-> F64Value[ret.args[1]],
                            height |-> F64Value[ret.args[2]]]
       /\ ret.value.valid <=> (ret.args[1] \in positive /\ ret.args[2] \in positive)

C19_Witness ==
    /\ ret.fn = "new.is_valid"
    /\ ret.args = <<"MIN_POSITIVE", "0.0">>
    /\ ret.value.valid = FALSE

(* C20: on a matching hotkey press the handler does what determine says    *)
(* for the existence and the visibility it read from the host (None when   *)
(* the query failed or no window exists): it calls the builder iff         *)
(* determine gives Create, hide iff Toggle(Hidden), show then set_focus    *)
(* iff Toggle(Visible), always on "main"; a successful query returns the   *)
(* window's visibility, and a failed query always leads to show.           *)
C20_HotkeyAgreesWithDetermine ==
    HotkeyHandled =>
       LET window_exists == Existed("main")
           current_visibility == IF queries = <<>> THEN <<"None">> ELSE queries[1]
           action == determine(window_exists, current_visibility)
       IN  /\ Len(queries) = IF window_exists THEN 1 ELSE 0
           /\ (window_exists /\ current_visibility # <<"None">>) =>
                 current_visibility = <<"Some", before.windows["main"].visible>>
           /\ Prims = <<"create">> <=> action = <<"Create">>
           /\ Prims = <<"hide">> <=> action = <<"Toggle", "Hidden">>
           /\ Prims = <<"show", "set_focus">> <=> action = <<"Toggle", "Visible">>
           /\ Prims \in {<<"create">>, <<"hide">>, <<"show", "set_focus">>}
           /\ \A i \in 1..Len(calls) : calls[i].target = "main"
           /\ (window_exists /\ current_visibility = <<"None">>) =>
                 Prims = <<"show", "set_focus">>
           /\ (Prims = <<"create">> /\ calls[1].ok) =>
                 (Exists("main") /\ ~windows["main"].visible)
           /\ (Prims = <<"hide">> /\ calls[1].ok) => ~windows["main"].visible
           /\ (Prims = <<"show", "set_focus">> /\ calls[1].ok) =>
                 windows["main"].visible
           /\ (Prims = <<"show", "set_focus">> /\ calls[2].ok) => focused = "main"

C20_Witness ==
    /\ HotkeyHandled
    /\ WasVisible("main")
    /\ queries = <<(<<"None">>)>>
    /\ Prims = <<"show", "set_focus">>
    /\ AllOk
    /\ windows["main"].visible

(* C21: the registry never holds a window under a label other than "main"  *)
(* and "settings", and the window builder is called at most once per       *)
(* handler run and only for a label that has no window, so no event makes  *)
(* a duplicate or a third window.                                          *)
C21_AtMostMainAndSettings ==
    /\ DOMAIN windows \subseteq {"main", "settings"}
    /\ Cardinality(DOMAIN windows) <= 2
    /\ \A i \in 1..Len(calls) :
          calls[i].prim = "create" =>
             /\ calls[i].target \in {"main", "settings"}
             /\ ~Existed(calls[i].target)
             /\ Len(calls) = 1
    /\ \A l \in DOMAIN windows :
          ~Existed(l) =>
             calls = <<[prim |-> "create", target |-> l, arg |-> windows[l].url,
                        ok |-> TRUE]>>
    /\ \A l \in DOMAIN windows :
          Existed(l) =>
             /\ windows[l].title = before.windows[l].title
             /\ windows[l].width = before.windows[l].width
             /\ windows[l].height = before.windows[l].height

C21_Witness ==
    /\ DOMAIN windows = {"main", "settings"}
    /\ DOMAIN before.windows = {"main", "settings"}
    /\ MenuHandled("about")
    /\ Prims = <<"navigate", "show", "set_focus">>

HotkeyToggled ==
    /\ HotkeyHandled
    /\ Existed("main")
    /\ AllOk
    /\ queries # <<>>
    /\ queries[1] # <<"None">>

(* C23: with the main window existing and all host calls succeeding, a     *)
(* hotkey press always changes the main window's visibility, and a second  *)
(* press directly after the first returns it to what it was before the     *)
(* first.                                                                  *)
C23_HotkeyTwiceRestores ==
    [][/\ HotkeyToggled' =>
             windows'["main"].visible # windows["main"].visible
       /\ (HotkeyToggled /\ HotkeyToggled') =>
             windows'["main"].visible = before.windows["main"].visible]_vars

C23_Witness ==
    /\ HotkeyToggled
    /\ WasVisible("main")
    /\ ~IsVisible("main")
    /\ Prims = <<"hide">>

(* C24: a Settings menu event on an existing settings window makes no      *)
(* navigate call and leaves its route as it was, the about route included; *)
(* the route of an existing settings window changes only in an About run   *)
(* whose navigate call succeeded.                                          *)
C24_SettingsNeverNavigates ==
    /\ (MenuHandled("settings") /\ Existed("settings")) =>
          /\ \A i \in 1..Len(calls) : calls[i].prim # "navigate"
          /\ Exists("settings")
          /\ windows["settings"].url = before.windows["settings"].url
    /\ \A l \in {"main", "settings"} :
          (Existed(l) /\ Exists(l) /\ windows[l].url # before.windows[l].url) =>
             /\ l = "settings"
             /\ MenuHandled("about")
             /\ calls[1] = [prim |-> "navigate", target |-> "settings",
                            arg |-> "/settings?tab=about", ok |-> TRUE]
             /\ windows[l].url = "/settings?tab=about"

C24_Witness ==
    /\ MenuHandled("settings")
    /\ Existed("settings")
    /\ before.windows["settings"].url = "/settings?tab=about"
    /\ windows["settings"].url = "/settings?tab=about"
    /\ windows["settings"].title = "Settings"
    /\ AllOk
    /\ IsVisible("settings")

(* C25: a global-shortcut callback whose key state is not Pressed, or      *)
(* whose shortcut is neither Meta+Space nor Control+Space, calls no host   *)
(* primitive, makes no query and leaves the registry, the focus and the    *)
(* running flag as they were.                                              *)
C25_ShortcutOnlyPressedAndMatching ==
    (event.kind = "shortcut"
       /\ ~(/\ event.state = "Pressed"
            /\ event.shortcut.mods \in {"META", "CONTROL"}
            /\ event.shortcut.key = "Space")) =>
       /\ calls = <<>>
       /\ queries = <<>>
       /\ windows = before.windows
       /\ focused = before.focused
       /\ running
       /\ exit_code = <<"None">>

C25_Witness ==
    /\ event.kind = "shortcut"
    /\ event.state = "Released"
    /\ event.shortcut = [mods |-> "META", key |-> "Space"]
    /\ calls = <<>>
    /\ IsVisible("main")

====
